---- MODULE Spec2Model ----
(***************************************************************************)
(* Model of tmctl's local runtime (pkg/runtime/runtime.go) and of the      *)
(* `create transformation` command (cmd/create/transformation.go).         *)
(*                                                                         *)
(* RunSpec : LocalSetup.RunAll, one goroutine per manifest object joined   *)
(*           by a sync.WaitGroup.                                          *)
(* Spec    : CreateOptions.transformation, the trigger reconciliation      *)
(*           against the manifest and the broker configuration.            *)
(* AdapterSpec : RunObject / StopObject / GetStatus / StopAll and the      *)
(*           adapter containers they start, probe, stop and inspect.       *)
(* LogSpec : listenLogs, one goroutine per adapter, and printLogErrors,    *)
(*           joined by the unbuffered channel errs.                        *)
(* ConcSpec : two create-transformation commands run at the same time      *)
(*           against the same manifest and broker configuration.           *)
(***************************************************************************)
EXTENDS Integers, Sequences, FiniteSets, TLC

\* ------------------------------------------------------------------------
\* Bounds
\* ------------------------------------------------------------------------
MaxComponents == 3      \* largest number of objects in the manifest RunAll reads
MaxOps == 2             \* number of create-transformation commands run in a row
MaxCalls == 3           \* number of runtime calls (start, stop, status, stop all) in a row
MaxLines == 2           \* number of lines a listener reads from its log stream

VARIABLES
  \* ---- LocalSetup.RunAll ----
  runPc,          \* position of RunAll: "idle" | "spawn" | "wait" | "returned"
  objects,        \* manifest.Objects, as the number of objects (indices 1..objects)
  spawned,        \* number of goroutines the for loop has started so far
  wg,             \* sync.WaitGroup counter
  taskPc,         \* per goroutine: "none" | "running" | "started" | "done" | "panicked"
  components,     \* components []string, "" until the goroutine stores its container
  ready,          \* set of objects whose adapter container is up
  failed,         \* set of objects whose RunObject returned an error
  runErr,         \* what RunAll returned: kind "none" (not returned) | "nil" |
                  \* "manifest"; names = the components the error names
  processAlive,   \* FALSE once an unrecovered panic has terminated the process
  \* ---- CreateOptions.transformation ----
  manifestObjects,  \* names of the sources, targets and transformations in the manifest
  manifestTriggers, \* trigger records of the manifest
  brokerConfig,     \* trigger records of the broker configuration file
  containers,       \* names of the running adapter containers
  pc,               \* position of transformation(): "idle" when no call is running
  op,               \* arguments and local variables of the running call
  result,           \* what the last call returned: "none" (running) | "nil" | "err"
  opsDone,          \* number of calls that have returned
  clean,            \* TRUE as long as no call has returned an error
  pre,              \* manifest and broker config when the running call began
  lastCompare,      \* the last evaluation, in the running call, of the filter test
                    \* of lines 176 / 195
  \* ---- RunObject, StopObject, GetStatus, StopAll ----
  adapters,         \* the adapter containers docker holds: records [name, id, state],
                    \* state "starting" | "ready" | "unready"; a stopped container
                    \* is removed
  nextId,           \* id the next created container gets
  call,             \* the runtime call in progress and its locals
  ret,              \* what the last runtime call returned
  callsDone,        \* number of runtime calls that have returned
  \* ---- listenLogs, printLogErrors ----
  logPc,            \* per listener: "scan" | "send" (blocked in errs <- logOutput) |
                    \* "done" (returned) | "panicked"
  logRead,          \* per listener: number of lines scanner.Scan() has returned
  logLine,          \* per listener: the line scanner.Bytes() holds
  logOutput,        \* per listener: the entry decoded from that line
  reporterPc,       \* printLogErrors: "select" | "returned"
  ctxDone,          \* TRUE once the context is cancelled
  logged,           \* the entries printLogErrors has received and printed
  logAlive,         \* FALSE once an unrecovered panic has terminated the process
  \* ---- two concurrent create-transformation commands ----
  procs,            \* per command: position and locals of transformation()
  writers           \* the commands that wrote the broker config, in the order of
                    \* their writes, successive writes of one command counted once

runVars == <<runPc, objects, spawned, wg, taskPc, components, ready, failed,
            runErr, processAlive>>

createVars == <<manifestObjects, manifestTriggers, brokerConfig, containers, pc,
               op, result, opsDone, clean, pre, lastCompare>>

adapterVars == <<adapters, nextId, call, ret, callsDone>>

logVars == <<logPc, logRead, logLine, logOutput, reporterPc, ctxDone, logged, logAlive>>

concVars == <<procs, writers>>

\* the variables neither RunAll nor the single create command touches
restVars == <<adapterVars, logVars, concVars>>

\* the variables the runtime calls on single adapters do not touch
nonAdapterVars == <<runVars, createVars, logVars, concVars>>

\* the variables the log listeners and the error reporter do not touch
nonLogVars == <<runVars, createVars, adapterVars, concVars>>

vars == <<runVars, createVars, restVars>>

\* ------------------------------------------------------------------------
\* LocalSetup.RunAll
\* ------------------------------------------------------------------------
Indices == 1..MaxComponents

ContainerOf(i) == <<"container", i>>

\* sync.WaitGroup.Wait returns when the counter is zero
WgWaitOpen_NoBarrier(c) == TRUE
WgWaitOpen(c) == c = 0

RunInit ==
  /\ runPc = "idle"
  /\ objects \in 0..MaxComponents
  /\ spawned = 0
  /\ wg = 0
  /\ taskPc = [i \in Indices |-> "none"]
  /\ components = [i \in Indices |-> ""]
  /\ ready = {}
  /\ failed = {}
  /\ runErr = [kind |-> "none", names |-> {}]
  /\ processAlive = TRUE

\* manifest.Read() fails: RunAll returns "cannot parse manifest"
RunAllReadFail ==
  /\ processAlive /\ runPc = "idle"
  /\ runPc' = "returned"
  /\ runErr' = [kind |-> "manifest", names |-> {}]
  /\ UNCHANGED <<objects, spawned, wg, taskPc, components, ready, failed, processAlive>>
  /\ UNCHANGED <<createVars, restVars>>

\* manifest.Read() succeeds; components := make([]string, n); wg.Add(n)
RunAllRead ==
  /\ processAlive /\ runPc = "idle"
  /\ components' = [i \in Indices |-> ""]
  /\ wg' = objects
  /\ runPc' = "spawn"
  /\ UNCHANGED <<objects, spawned, taskPc, ready, failed, runErr, processAlive>>
  /\ UNCHANGED <<createVars, restVars>>

\* one iteration of the for loop: go func(i, object) {...}(i, object)
RunAllSpawn ==
  /\ processAlive /\ runPc = "spawn"
  /\ spawned < objects
  /\ spawned' = spawned + 1
  /\ taskPc' = [taskPc EXCEPT ![spawned + 1] = "running"]
  /\ UNCHANGED <<runPc, objects, wg, components, ready, failed, runErr, processAlive>>
  /\ UNCHANGED <<createVars, restVars>>

\* the for loop is over; RunAll reaches wg.Wait()
RunAllLoopEnd ==
  /\ processAlive /\ runPc = "spawn"
  /\ spawned = objects
  /\ runPc' = "wait"
  /\ UNCHANGED <<objects, spawned, wg, taskPc, components, ready, failed, runErr, processAlive>>
  /\ UNCHANGED <<createVars, restVars>>

\* goroutine i: RunObject returns a container
TaskRunObjectOk(i) ==
  /\ processAlive /\ taskPc[i] = "running"
  /\ taskPc' = [taskPc EXCEPT ![i] = "started"]
  /\ ready' = ready \cup {i}
  /\ UNCHANGED <<runPc, objects, spawned, wg, components, failed, runErr, processAlive>>
  /\ UNCHANGED <<createVars, restVars>>

\* goroutine i: RunObject returns an error; the goroutine panics and the
\* unrecovered panic terminates the whole process
TaskRunObjectErr(i) ==
  /\ processAlive /\ taskPc[i] = "running"
  /\ taskPc' = [taskPc EXCEPT ![i] = "panicked"]
  /\ failed' = failed \cup {i}
  /\ processAlive' = FALSE
  /\ UNCHANGED <<runPc, objects, spawned, wg, components, ready, runErr>>
  /\ UNCHANGED <<createVars, restVars>>

\* goroutine i: components[i] = c; wg.Done()
TaskDone(i) ==
  /\ processAlive /\ taskPc[i] = "started"
  /\ components' = [components EXCEPT ![i] = ContainerOf(i)]
  /\ wg' = wg - 1
  /\ taskPc' = [taskPc EXCEPT ![i] = "done"]
  /\ UNCHANGED <<runPc, objects, spawned, ready, failed, runErr, processAlive>>
  /\ UNCHANGED <<createVars, restVars>>

\* wg.Wait() returns; RunAll returns nil
RunAllReturn ==
  /\ processAlive /\ runPc = "wait"
  /\ WgWaitOpen(wg)
  /\ runPc' = "returned"
  /\ runErr' = [kind |-> "nil", names |-> {}]
  /\ UNCHANGED <<objects, spawned, wg, taskPc, components, ready, failed, processAlive>>
  /\ UNCHANGED <<createVars, restVars>>

RunNext ==
  \/ RunAllReadFail
  \/ RunAllRead
  \/ RunAllSpawn
  \/ RunAllLoopEnd
  \/ \E i \in Indices : TaskRunObjectOk(i)
  \/ \E i \in Indices : TaskRunObjectErr(i)
  \/ \E i \in Indices : TaskDone(i)
  \/ RunAllReturn


\* ------------------------------------------------------------------------
\* Properties of RunAll
\* ------------------------------------------------------------------------
RunEnded == runPc = "returned" \/ ~processAlive

TaskRunning(i) == taskPc[i] \in {"running", "started"}

\* C1: when the start of any component of the batch fails, the process is
\* not terminated by it and the value RunAll returns is an error.
C1_StartFailureReturned ==
  failed # {} =>
    /\ processAlive
    /\ runPc = "returned" => runErr.kind \notin {"none", "nil"}

\* C2: RunAll ends in exactly one of two ways: every one of the N adapter
\* containers is ready and it returned nil, or it returned an error that
\* names every component whose start failed.
C2_AllReadyOrAggregatedError ==
  RunEnded =>
    \/ runErr.kind = "nil" /\ ready = 1..objects /\ failed = {}
    \/ runErr.kind \notin {"none", "nil"} /\ runErr.names = failed

\* C3: at the moment RunAll has returned, no per-component start task is
\* still running.
C3_BarrierBeforeReturn ==
  runPc = "returned" => \A i \in Indices : ~TaskRunning(i)

C3_Witness ==
  /\ runPc = "returned"
  /\ runErr.kind = "nil"
  /\ objects >= 2
  /\ \A i \in 1..objects : taskPc[i] = "done"

\* ------------------------------------------------------------------------
\* Components, filters and triggers
\* ------------------------------------------------------------------------
SourceNames == {"S1", "S2"}
TargetNames == {"T1"}
TransNames == {"Tr1", "Tr2"}

\* the values the command line flags are drawn from
NameInputs == {"Tr1"}
TargetInputs == {"", "T1", "Tr2", "S1"}
SourceInputs == {<<>>, <<"S1">>, <<"S1", "S2">>, <<"T1">>}
EventTypeInputs == {<<>>, <<"e1">>}
DeclaredTypeInputs == {<<>>, <<"e1">>}

\* triggermesh.Producer / triggermesh.Consumer type assertions
IsProducer(n) == n \in SourceNames \cup TransNames
IsConsumer(n) == n \in TargetNames \cup TransNames

\* consumer.GetPort / container.HostPort: the host port of a component's container
PortOf(n) == n \o "-port"

\* fmt.Sprintf("http://host.docker.internal:%s", port)
Endpoint(port) == "http://host.docker.internal:" \o port

\* fmt.Sprintf("%s.output", t.GetName())
OutputType_Bare(name) == name
OutputType(name) == name \o ".output"

\* tmbroker.FilterExactAttribute(key, value)
FilterExactAttribute(key, value) == [key |-> key, value |-> value]

\* a trigger: name, filter sequence, target (component name and url)
MkTrigger(name, filters, targetName, url) ==
  [name |-> name, filters |-> filters, target |-> [name |-> targetName, url |-> url]]

\* FilterSets are equivalent iff they hold the same (key, value) pairs
Equivalent(a, b) == {a[k] : k \in DOMAIN a} = {b[k] : k \in DOMAIN b}

\* the address of the first element of a trigger object's Filters slice
AddrOfTriggerFilter(trigger) == [var |-> "trigger.Filters[0]", of |-> trigger.name]

\* the address of the local variable `filter` of iteration i of the loop over `key`
AddrOfLocalFilter(key, i) == [var |-> "filter " \o key, of |-> i]

\* the local variable `filter`: where it lives and what it holds
FilterVar(key, i, value) ==
  [addr |-> AddrOfLocalFilter(key, i), val |-> FilterExactAttribute(key, value)]

\* the test of lines 176 and 195; TRUE makes the loop `continue`
SkipsTrigger(trigger, filterVar) ==
  Len(trigger.filters) # 1 \/ AddrOfTriggerFilter(trigger) # filterVar.addr

\* write a trigger to a trigger store, replacing the record of the same name
Upsert(store, trigger) == {u \in store : u.name # trigger.name} \cup {trigger}

\* remove the trigger of that name from a trigger store
RemoveByName(store, name) == {u \in store : u.name # name}

\* tmbroker.GetTargetTriggers: the triggers of the broker config that target `target`
GetTargetTriggers(config, target) == {t \in config : t.target.name = target}

\* the triggers of a store that route to targetName under an equivalent filter set
RouteTriggers(store, targetName, filters) ==
  {t \in store : t.target.name = targetName /\ Equivalent(t.filters, filters)}

FreshName(store) ==
  CHOOSE n \in 1..(Cardinality(store) + 1) : \A t \in store : t.name # n

\* createTrigger("", port, targetName, filter): the trigger object it writes. The
\* route's trigger is updated when there is one, and a new trigger is made otherwise
CreateTrigger_AlwaysNew(config, manifest, targetName, port, filter) ==
  MkTrigger(FreshName(config \cup manifest), <<filter>>, targetName, Endpoint(port))
CreateTrigger(config, manifest, targetName, port, filter) ==
  LET existing == RouteTriggers(config, targetName, <<filter>>)
      name == IF existing # {}
              THEN (CHOOSE t \in existing : \A u \in existing : t.name <= u.name).name
              ELSE FreshName(config \cup manifest)
  IN MkTrigger(name, <<filter>>, targetName, Endpoint(port))

\* trigger.SetTarget(name, url)
SetTarget(trigger, targetName, url) ==
  [trigger EXCEPT !.target = [name |-> targetName, url |-> url]]

\* ------------------------------------------------------------------------
\* CreateOptions.transformation
\* ------------------------------------------------------------------------
NoContainer == [name |-> "", port |-> ""]

\* the arguments and locals of a call that is not running
NoOp ==
  [name |-> "", target |-> "", sources |-> <<>>, eventTypes |-> <<>>,
   declared |-> <<>>, targetPort |-> "", eventType |-> "", typeAttr |-> "",
   restart |-> FALSE,
   container |-> NoContainer, targetTriggers |-> {}, i |-> 0, todo |-> {}]

NoPre == [config |-> {}, manifest |-> {}, objects |-> {}]

NoCompare ==
  [done |-> FALSE, filters |-> <<>>, filter |-> FilterExactAttribute("", ""),
   same |-> FALSE]

InitTrigger(n, source) ==
  MkTrigger(n, <<FilterExactAttribute("source", source)>>, "T1", Endpoint(PortOf("T1")))

CreateInit ==
  /\ manifestObjects = SourceNames \cup TargetNames
  /\ brokerConfig = {InitTrigger(1, "S1"), InitTrigger(2, "S2")}
  /\ manifestTriggers = brokerConfig
  /\ containers = SourceNames \cup TargetNames
  /\ pc = "idle"
  /\ op = NoOp
  /\ result = "none"
  /\ opsDone = 0
  /\ clean = TRUE
  /\ pre = NoPre
  /\ lastCompare = NoCompare

\* the call is over: its arguments and locals are gone
Finished ==
  /\ pc' = "idle"
  /\ op' = NoOp
  /\ pre' = NoPre
  /\ lastCompare' = NoCompare
  /\ opsDone' = opsDone + 1

\* the call returns an error
ReturnErr == Finished /\ result' = "err" /\ clean' = FALSE

\* the call goes on
Running == UNCHANGED <<result, opsDone, clean, pre, lastCompare>>

\* RunE: o.transformation(name, target, file, eventSourcesFilter, eventTypesFilter)
Begin(name, target, sources, eventTypes, declared) ==
  /\ pc = "idle"
  /\ opsDone < MaxOps
  /\ op' = [NoOp EXCEPT !.name = name, !.target = target, !.sources = sources,
                         !.eventTypes = eventTypes, !.declared = declared]
  /\ pre' = [config |-> brokerConfig, manifest |-> manifestTriggers,
             objects |-> manifestObjects]
  /\ result' = "none"
  /\ pc' = "lookupTarget"
  /\ UNCHANGED <<manifestObjects, manifestTriggers, brokerConfig, containers, opsDone,
                 clean, lastCompare>>
  /\ UNCHANGED <<runVars, restVars>>

\* if target != "" { port, err := o.lookupTarget(ctx, target) ... }
LookupTarget ==
  /\ pc = "lookupTarget"
  /\ IF op.target = ""
     THEN pc' = "translate" /\ Running /\ UNCHANGED op
     ELSE IF op.target \notin manifestObjects \/ ~IsConsumer(op.target)
     THEN ReturnErr
     ELSE \E ok \in BOOLEAN :
            IF ok
            THEN /\ op' = [op EXCEPT !.targetPort = PortOf(op.target)]
                 /\ pc' = "translate"
                 /\ Running
            ELSE ReturnErr
  /\ UNCHANGED <<manifestObjects, manifestTriggers, brokerConfig, containers>>
  /\ UNCHANGED <<runVars, restVars>>

\* eventSourcesFilter, err := o.translateEventSource(eventSourcesFilter)
TranslateEventSource ==
  /\ pc = "translate"
  /\ IF \A k \in DOMAIN op.sources :
          op.sources[k] \in manifestObjects /\ IsProducer(op.sources[k])
     THEN pc' = "readSpec" /\ Running /\ UNCHANGED op
     ELSE ReturnErr
  /\ UNCHANGED <<manifestObjects, manifestTriggers, brokerConfig, containers>>
  /\ UNCHANGED <<runVars, restVars>>

\* fromStdIn / os.ReadFile, then yaml.Unmarshal
ReadSpec ==
  /\ pc = "readSpec"
  /\ \E ok \in BOOLEAN :
       IF ok
       THEN pc' = "eventType" /\ Running /\ UNCHANGED op
       ELSE ReturnErr
  /\ UNCHANGED <<manifestObjects, manifestTriggers, brokerConfig, containers>>
  /\ UNCHANGED <<runVars, restVars>>

\* transformationEventType: "<name>.output" unless the transformation declares types;
\* op.declared is what GetEventTypes returns, op.typeAttr the "type" attribute
\* SetEventAttributes was given ("" when it was not called)
SetEventType ==
  /\ pc = "eventType"
  /\ IF Len(op.declared) = 0
     THEN \E ok \in BOOLEAN :
            IF ok
            THEN /\ op' = [op EXCEPT !.eventType = OutputType(op.name),
                                      !.typeAttr = OutputType(op.name)]
                 /\ pc' = "manifestAdd"
                 /\ Running
            ELSE ReturnErr
     ELSE /\ op' = [op EXCEPT !.eventType = op.declared[1]]
          /\ pc' = "manifestAdd"
          /\ Running
  /\ UNCHANGED <<manifestObjects, manifestTriggers, brokerConfig, containers>>
  /\ UNCHANGED <<runVars, restVars>>

\* restart, err := o.Manifest.Add(t)
ManifestAdd ==
  /\ pc = "manifestAdd"
  /\ \E ok \in BOOLEAN :
       IF ok
       THEN /\ manifestObjects' = manifestObjects \cup {op.name}
            /\ \E changed \in BOOLEAN :
                 op' = [op EXCEPT !.restart = op.name \notin manifestObjects \/ changed]
            /\ pc' = "start"
            /\ Running
       ELSE ReturnErr /\ UNCHANGED manifestObjects
  /\ UNCHANGED <<manifestTriggers, brokerConfig, containers>>
  /\ UNCHANGED <<runVars, restVars>>

\* container, err := t.(triggermesh.Runnable).Start(ctx, nil, restart)
StartContainer ==
  /\ pc = "start"
  /\ \E ok \in BOOLEAN :
       IF ok
       THEN /\ containers' = containers \cup {op.name}
            /\ op' = [op EXCEPT !.container = [name |-> op.name, port |-> PortOf(op.name)],
                                 !.restart = FALSE]
            /\ pc' = "targetTrigger"
            /\ Running
       ELSE ReturnErr /\ UNCHANGED containers
  /\ UNCHANGED <<manifestObjects, manifestTriggers, brokerConfig>>
  /\ UNCHANGED <<runVars, restVars>>

LoopPc(key) == IF key = "type" THEN "eventTypes" ELSE "sources"
ScanPc(key) == IF key = "type" THEN "eventTypesScan" ELSE "sourcesScan"
LoopValues(key) == IF key = "type" THEN op.eventTypes ELSE op.sources
Names(store) == {t.name : t \in store}
TriggerNamed(store, n) == CHOOSE t \in store : t.name = n
\* the range loops go through targetTriggers in the order of the slice
NextOf(todo) == CHOOSE n \in todo : \A m \in todo : n <= m

\* the test `target != ""` of line 159
HasTarget_Never(target) == FALSE
HasTarget(target) == target # ""

\* if target != "" { GetTargetTriggers(...); createTrigger("", targetPort, target, type filter) }
TargetTrigger ==
  /\ pc = "targetTrigger"
  /\ IF ~HasTarget(op.target)
     THEN /\ op' = [op EXCEPT !.i = 1]
          /\ pc' = "eventTypes"
          /\ Running /\ UNCHANGED <<brokerConfig, manifestTriggers>>
     ELSE \E outcome \in {"ok", "targetTriggersErr", "createErr"} :
            LET found == GetTargetTriggers(brokerConfig, op.target)
                trigger == CreateTrigger(brokerConfig, manifestTriggers, op.target,
                             op.targetPort, FilterExactAttribute("type", op.eventType))
            IN CASE outcome = "targetTriggersErr" ->
                      /\ ReturnErr
                      /\ UNCHANGED <<brokerConfig, manifestTriggers>>
                 [] outcome = "createErr" ->
                      /\ ReturnErr
                      /\ UNCHANGED <<brokerConfig, manifestTriggers>>
                 [] outcome = "ok" ->
                      /\ op' = [op EXCEPT !.targetTriggers = found, !.i = 1]
                      /\ brokerConfig' = Upsert(brokerConfig, trigger)
                      /\ manifestTriggers' = Upsert(manifestTriggers, trigger)
                      /\ pc' = "eventTypes"
                      /\ Running
  /\ UNCHANGED <<manifestObjects, containers>>
  /\ UNCHANGED <<runVars, restVars>>

\* for _, et := range eventTypesFilter / for _, es := range eventSourcesFilter:
\* filter := FilterExactAttribute(key, value); createTrigger("", HostPort, Name, filter)
FilterTrigger_RollsBack(key) ==
  /\ pc = LoopPc(key)
  /\ op.i <= Len(LoopValues(key))
  /\ \E ok \in BOOLEAN :
       IF ok
       THEN LET filter == FilterExactAttribute(key, LoopValues(key)[op.i])
                trigger == CreateTrigger(brokerConfig, manifestTriggers,
                             op.container.name, op.container.port, filter)
            IN /\ brokerConfig' = Upsert(brokerConfig, trigger)
               /\ manifestTriggers' = Upsert(manifestTriggers, trigger)
               /\ IF op.targetTriggers = {}
                  THEN op' = [op EXCEPT !.i = op.i + 1] /\ pc' = LoopPc(key)
                  ELSE /\ op' = [op EXCEPT !.todo = Names(op.targetTriggers)]
                       /\ pc' = ScanPc(key)
               /\ Running
       ELSE /\ ReturnErr
            /\ brokerConfig' = pre.config
            /\ manifestTriggers' = pre.manifest
  /\ UNCHANGED <<manifestObjects, containers>>
  /\ UNCHANGED <<runVars, restVars>>
FilterTrigger(key) ==
  /\ pc = LoopPc(key)
  /\ op.i <= Len(LoopValues(key))
  /\ \E ok \in BOOLEAN :
       IF ok
       THEN LET filter == FilterExactAttribute(key, LoopValues(key)[op.i])
                trigger == CreateTrigger(brokerConfig, manifestTriggers,
                             op.container.name, op.container.port, filter)
            IN /\ brokerConfig' = Upsert(brokerConfig, trigger)
               /\ manifestTriggers' = Upsert(manifestTriggers, trigger)
               /\ IF op.targetTriggers = {}
                  THEN op' = [op EXCEPT !.i = op.i + 1] /\ pc' = LoopPc(key)
                  ELSE /\ op' = [op EXCEPT !.todo = Names(op.targetTriggers)]
                       /\ pc' = ScanPc(key)
               /\ Running
       ELSE /\ ReturnErr
            /\ UNCHANGED <<brokerConfig, manifestTriggers>>
  /\ UNCHANGED <<manifestObjects, containers>>
  /\ UNCHANGED <<runVars, restVars>>

\* the range loop has no value left
FilterLoopEnd(key) ==
  /\ pc = LoopPc(key)
  /\ op.i > Len(LoopValues(key))
  /\ IF key = "type"
     THEN op' = [op EXCEPT !.i = 1] /\ pc' = "sources"
     ELSE /\ op' = [op EXCEPT !.todo =
                      IF Len(op.eventTypes) = 0 /\ Len(op.sources) = 0
                      THEN Names(op.targetTriggers) ELSE {}]
          /\ pc' = "retarget"
  /\ Running
  /\ UNCHANGED <<manifestObjects, manifestTriggers, brokerConfig, containers>>
  /\ UNCHANGED <<runVars, restVars>>

\* one iteration of `for _, component := range targetTriggers` in a filter loop
FilterScan(key) ==
  /\ pc = ScanPc(key)
  /\ op.todo # {}
  /\ LET n == NextOf(op.todo)
         trigger == TriggerNamed(op.targetTriggers, n)
         filter == FilterVar(key, op.i, LoopValues(key)[op.i])
         skip == SkipsTrigger(trigger, filter)
         left == op.todo \ {n}
         advance == IF left = {}
                    THEN op' = [op EXCEPT !.todo = {}, !.i = op.i + 1] /\ pc' = LoopPc(key)
                    ELSE op' = [op EXCEPT !.todo = left] /\ pc' = pc
         compared == /\ lastCompare' = [done |-> TRUE, filters |-> trigger.filters,
                                        filter |-> filter.val, same |-> ~skip]
                     /\ UNCHANGED <<result, opsDone, clean, pre>>
     IN IF skip
        THEN advance /\ compared /\ UNCHANGED <<brokerConfig, manifestTriggers>>
        ELSE \E outcome \in {"ok", "configErr", "manifestErr"} :
               CASE outcome = "configErr" ->
                      /\ ReturnErr
                      /\ UNCHANGED <<brokerConfig, manifestTriggers>>
                 [] outcome = "manifestErr" ->
                      /\ brokerConfig' = RemoveByName(brokerConfig, n)
                      /\ ReturnErr
                      /\ UNCHANGED manifestTriggers
                 [] outcome = "ok" ->
                      /\ brokerConfig' = RemoveByName(brokerConfig, n)
                      /\ manifestTriggers' = RemoveByName(manifestTriggers, n)
                      /\ advance
                      /\ compared
  /\ UNCHANGED <<manifestObjects, containers>>
  /\ UNCHANGED <<runVars, restVars>>

\* one iteration of the loop of lines 208-216: SetTarget, UpdateBrokerConfig, Manifest.Add
Retarget ==
  /\ pc = "retarget"
  /\ op.todo # {}
  /\ LET n == NextOf(op.todo)
         trigger == SetTarget(TriggerNamed(op.targetTriggers, n), op.container.name,
                              Endpoint(op.container.port))
     IN \E outcome \in {"ok", "configErr", "manifestErr"} :
          CASE outcome = "configErr" ->
                 /\ ReturnErr
                 /\ UNCHANGED <<brokerConfig, manifestTriggers>>
            [] outcome = "manifestErr" ->
                 /\ brokerConfig' = Upsert(brokerConfig, trigger)
                 /\ ReturnErr
                 /\ UNCHANGED manifestTriggers
            [] outcome = "ok" ->
                 /\ op' = [op EXCEPT !.targetTriggers = Upsert(op.targetTriggers, trigger),
                                     !.todo = op.todo \ {n}]
                 /\ brokerConfig' = Upsert(brokerConfig, trigger)
                 /\ manifestTriggers' = Upsert(manifestTriggers, trigger)
                 /\ Running /\ UNCHANGED pc
  /\ UNCHANGED <<manifestObjects, containers>>
  /\ UNCHANGED <<runVars, restVars>>

\* output.PrintStatus(...); return nil
Return ==
  /\ pc = "retarget"
  /\ op.todo = {}
  /\ Finished
  /\ result' = "nil"
  /\ UNCHANGED clean
  /\ UNCHANGED <<manifestObjects, manifestTriggers, brokerConfig, containers>>
  /\ UNCHANGED <<runVars, restVars>>

\* ------------------------------------------------------------------------
\* RunObject, StopObject, GetStatus, StopAll
\* ------------------------------------------------------------------------
\* connRetries = 10
connRetries == 10

\* manifest.Objects, in manifest order
AdapterObjects == <<"a1", "a2">>
AdapterNames == {AdapterObjects[j] : j \in 1..Len(AdapterObjects)}

\* the probe attempt from which a started adapter answers; connRetries + 1
\* stands for an adapter that does not answer within the probe budget
ReachInputs == 1..(connRetries + 1)

NoCall ==
  [pc |-> "idle", name |-> "", restart |-> FALSE, added |-> FALSE, caller |-> "",
   reachAt |-> 0, attempts |-> 0, reused |-> FALSE, id |-> 0, err |-> "none",
   i |-> 0]

NoRet == [kind |-> "none", name |-> "", err |-> "none", id |-> 0, status |-> ""]

AdapterInit ==
  /\ adapters = {}
  /\ nextId = 1
  /\ call = NoCall
  /\ ret = NoRet
  /\ callsDone = 0

ContainersOf(ctrs, name) == {c \in ctrs : c.name = name}

\* a container of that name is running and answers
IsRunning(ctrs, name) == \E c \in ContainersOf(ctrs, name) : c.state = "ready"

\* client.RemoveContainer(ctx, name): no container of that name is left
RemoveContainer(ctrs, name) == {c \in ctrs : c.name # name}

\* client.Status(ctx, name)
Status(ctrs, name) ==
  IF ContainersOf(ctrs, name) = {}
  THEN "absent"
  ELSE (CHOOSE c \in ContainersOf(ctrs, name) : TRUE).state

\* the call is over
CallReturns(kind, name, err, id, status) ==
  /\ ret' = [kind |-> kind, name |-> name, err |-> err, id |-> id, status |-> status]
  /\ call' = NoCall
  /\ callsDone' = callsDone + 1

\* Start(ctx, additionalEnv, restart), up to the first probe: a running container
\* is kept unless restart is set, otherwise the name gets a new container
EnterStart(name, restart, caller, added) ==
  IF ~restart /\ IsRunning(adapters, name)
  THEN LET c == CHOOSE c \in ContainersOf(adapters, name) : c.state = "ready" IN
       /\ call' = [NoCall EXCEPT !.pc = "return", !.name = name, !.restart = restart,
                                 !.caller = caller, !.added = added, !.reused = TRUE,
                                 !.id = c.id, !.err = "nil"]
       /\ UNCHANGED <<adapters, nextId>>
  ELSE \E k \in ReachInputs :
       /\ adapters' = RemoveContainer(adapters, name)
                        \cup {[name |-> name, id |-> nextId, state |-> "starting"]}
       /\ nextId' = nextId + 1
       /\ call' = [NoCall EXCEPT !.pc = "probe", !.name = name, !.restart = restart,
                                 !.caller = caller, !.added = added, !.reachAt = k,
                                 !.id = nextId]

\* RunObject: docker.NewClient, then runAdapter; whether runAdapter replaces a
\* running container is not fixed by RunObject, both are allowed
RunObject(name) ==
  /\ call.pc = "idle"
  /\ callsDone < MaxCalls
  /\ \E clientOk \in BOOLEAN :
       IF clientOk
       THEN /\ \E restart \in BOOLEAN : EnterStart(name, restart, "run", FALSE)
            /\ UNCHANGED <<ret, callsDone>>
       ELSE /\ CallReturns("start", name, "docker client", 0, "")
            /\ UNCHANGED <<adapters, nextId>>
  /\ UNCHANGED nonAdapterVars

\* the restart argument of t.Start(ctx, nil, restart)
StartRestartArg_Always(restart) == TRUE
StartRestartArg(restart) == restart

\* restart, err := o.Manifest.Add(t); container, err := t.Start(ctx, nil, restart)
CreateStart(name) ==
  /\ call.pc = "idle"
  /\ callsDone < MaxCalls
  /\ \E added \in BOOLEAN : EnterStart(name, StartRestartArg(added), "create", added)
  /\ UNCHANGED <<ret, callsDone>>
  /\ UNCHANGED nonAdapterVars

SetState(ctrs, id, state) ==
  {IF c.id = id THEN [c EXCEPT !.state = state] ELSE c : c \in ctrs}

\* the readiness probe goes on while the budget of attempts is not used up
ProbeAgain_OffByOne(attempts) == attempts <= connRetries
ProbeAgain(attempts) == attempts < connRetries

\* one probe attempt
Probe ==
  /\ call.pc = "probe"
  /\ ProbeAgain(call.attempts)
  /\ IF call.attempts + 1 >= call.reachAt
     THEN /\ adapters' = SetState(adapters, call.id, "ready")
          /\ call' = [call EXCEPT !.attempts = call.attempts + 1, !.pc = "return",
                                  !.err = "nil"]
     ELSE /\ call' = [call EXCEPT !.attempts = call.attempts + 1]
          /\ UNCHANGED adapters
  /\ UNCHANGED <<nextId, ret, callsDone>>
  /\ UNCHANGED nonAdapterVars

\* the probe budget is used up: the container is left unready
ProbeGiveUp ==
  /\ call.pc = "probe"
  /\ ~ProbeAgain(call.attempts)
  /\ adapters' = SetState(adapters, call.id, "unready")
  /\ call' = [call EXCEPT !.pc = "return", !.err = "unready"]
  /\ UNCHANGED <<nextId, ret, callsDone>>
  /\ UNCHANGED nonAdapterVars

StartReturn ==
  /\ call.pc = "return"
  /\ CallReturns("start", call.name, call.err, call.id, "")
  /\ UNCHANGED <<adapters, nextId>>
  /\ UNCHANGED nonAdapterVars

\* StopObject: docker.NewClient, then client.RemoveContainer(ctx, object.Metadata.Name)
StopObject(name) ==
  /\ call.pc = "idle"
  /\ callsDone < MaxCalls
  /\ \E clientOk \in BOOLEAN :
       IF clientOk
       THEN /\ adapters' = RemoveContainer(adapters, name)
            /\ CallReturns("stop", name, "nil", 0, "")
       ELSE /\ CallReturns("stop", name, "docker client", 0, "")
            /\ UNCHANGED adapters
  /\ UNCHANGED nextId
  /\ UNCHANGED nonAdapterVars

\* GetStatus: docker.NewClient, then client.Status(ctx, object.Metadata.Name)
GetStatus_Removes(name) ==
  /\ call.pc = "idle"
  /\ callsDone < MaxCalls
  /\ adapters' = RemoveContainer(adapters, name)
  /\ CallReturns("status", name, "nil", 0, Status(adapters, name))
  /\ UNCHANGED nextId
  /\ UNCHANGED nonAdapterVars
GetStatus(name) ==
  /\ call.pc = "idle"
  /\ callsDone < MaxCalls
  /\ \E clientOk \in BOOLEAN :
       IF clientOk
       THEN CallReturns("status", name, "nil", 0, Status(adapters, name))
       ELSE CallReturns("status", name, "docker client", 0, "")
  /\ UNCHANGED <<adapters, nextId>>
  /\ UNCHANGED nonAdapterVars

\* StopAll: manifest.Read
StopAllBegin ==
  /\ call.pc = "idle"
  /\ callsDone < MaxCalls
  /\ \E readOk \in BOOLEAN :
       IF readOk
       THEN /\ call' = [NoCall EXCEPT !.pc = "stopAll", !.i = 1]
            /\ UNCHANGED <<ret, callsDone>>
       ELSE CallReturns("stopAll", "", "manifest", 0, "")
  /\ UNCHANGED <<adapters, nextId>>
  /\ UNCHANGED nonAdapterVars

\* if err := StopObject(ctx, &object); err != nil { return err }
StopAllAborts_Inverted(err) == err = "nil"
StopAllAborts(err) == err # "nil"

\* one iteration of the loop over manifest.Objects
StopAllStep ==
  /\ call.pc = "stopAll"
  /\ call.i <= Len(AdapterObjects)
  /\ \E clientOk \in BOOLEAN :
       LET err == IF clientOk THEN "nil" ELSE "docker client" IN
       /\ adapters' = IF clientOk
                      THEN RemoveContainer(adapters, AdapterObjects[call.i])
                      ELSE adapters
       /\ IF StopAllAborts(err)
          THEN CallReturns("stopAll", AdapterObjects[call.i], err, 0, "")
          ELSE /\ call' = [call EXCEPT !.i = call.i + 1]
               /\ UNCHANGED <<ret, callsDone>>
  /\ UNCHANGED nextId
  /\ UNCHANGED nonAdapterVars

\* return nil
StopAllReturn ==
  /\ call.pc = "stopAll"
  /\ call.i > Len(AdapterObjects)
  /\ CallReturns("stopAll", "", "nil", 0, "")
  /\ UNCHANGED <<adapters, nextId>>
  /\ UNCHANGED nonAdapterVars

AdapterNext ==
  \/ \E name \in AdapterNames : RunObject(name)
  \/ \E name \in AdapterNames : CreateStart(name)
  \/ Probe
  \/ ProbeGiveUp
  \/ StartReturn
  \/ \E name \in AdapterNames : StopObject(name)
  \/ \E name \in AdapterNames : GetStatus(name)
  \/ StopAllBegin
  \/ StopAllStep
  \/ StopAllReturn

\* ------------------------------------------------------------------------
\* listenLogs and printLogErrors
\* ------------------------------------------------------------------------
\* one listener per component
Listeners == AdapterNames

\* scanner.Bytes()[8:] drops the first 8 bytes of the line
headerBytes == 8

\* a line of a log stream: its length in bytes, whether the bytes from offset
\* headerBytes on are JSON that json.Unmarshal decodes into an adapterLogEntry,
\* and the severity that JSON gives ("" when it has no severity field)
Line(size, json, severity) == [size |-> size, json |-> json, severity |-> severity]

LineInputs ==
  {Line(0, FALSE, ""), Line(headerBytes, FALSE, ""), Line(40, FALSE, ""),
   Line(40, TRUE, "INFO"), Line(40, TRUE, "WARNING"), Line(40, TRUE, "ERROR"),
   Line(40, TRUE, "")}

NoLine == Line(0, FALSE, "")
NoEntry == [component |-> "", severity |-> ""]

\* the slice expression scanner.Bytes()[8:] is in range
SliceInRange(line) == headerBytes <= line.size

\* logOutput.Severity != "INFO" && logOutput.Severity != "WARNING"
IsErrorSeverity(severity) == severity # "INFO" /\ severity # "WARNING"

LogInit ==
  /\ logPc = [l \in Listeners |-> "scan"]
  /\ logRead = [l \in Listeners |-> 0]
  /\ logLine = [l \in Listeners |-> NoLine]
  /\ logOutput = [l \in Listeners |-> NoEntry]
  /\ reporterPc = "select"
  /\ ctxDone = FALSE
  /\ logged = {}
  /\ logAlive = TRUE

\* one iteration of `for scanner.Scan()` up to the channel send
ListenScan(l) ==
  /\ logAlive
  /\ logPc[l] = "scan"
  /\ logRead[l] < MaxLines
  /\ \E line \in LineInputs :
       /\ logRead' = [logRead EXCEPT ![l] = logRead[l] + 1]
       /\ logLine' = [logLine EXCEPT ![l] = line]
       /\ IF ~SliceInRange(line)
          THEN \* run-time panic: slice bounds out of range
               /\ logPc' = [logPc EXCEPT ![l] = "panicked"]
               /\ logAlive' = FALSE
               /\ UNCHANGED logOutput
          ELSE IF ~line.json
          THEN \* json.Unmarshal fails: continue
               UNCHANGED <<logPc, logOutput, logAlive>>
          ELSE IF IsErrorSeverity(line.severity)
          THEN /\ logOutput' = [logOutput EXCEPT
                                  ![l] = [component |-> l, severity |-> line.severity]]
               /\ logPc' = [logPc EXCEPT ![l] = "send"]
               /\ UNCHANGED logAlive
          ELSE UNCHANGED <<logPc, logOutput, logAlive>>
  /\ UNCHANGED <<reporterPc, ctxDone, logged>>
  /\ UNCHANGED nonLogVars

\* scanner.Scan() returns false: the stream is over and listenLogs returns
ListenEnd(l) ==
  /\ logAlive
  /\ logPc[l] = "scan"
  /\ logPc' = [logPc EXCEPT ![l] = "done"]
  /\ UNCHANGED <<logRead, logLine, logOutput, reporterPc, ctxDone, logged, logAlive>>
  /\ UNCHANGED nonLogVars

\* errs <- logOutput meets case data := <-errs: log.Printf(...)
Receive(l) ==
  /\ logAlive
  /\ logPc[l] = "send"
  /\ reporterPc = "select"
  /\ logged' = logged \cup {logOutput[l]}
  /\ logPc' = [logPc EXCEPT ![l] = "scan"]
  /\ logOutput' = [logOutput EXCEPT ![l] = NoEntry]
  /\ UNCHANGED <<logRead, logLine, reporterPc, ctxDone, logAlive>>
  /\ UNCHANGED nonLogVars

\* the context is cancelled
Cancel ==
  /\ logAlive
  /\ ~ctxDone
  /\ ctxDone' = TRUE
  /\ UNCHANGED <<logPc, logRead, logLine, logOutput, reporterPc, logged, logAlive>>
  /\ UNCHANGED nonLogVars

\* case <-ctx.Done(): return
ReporterReturn ==
  /\ logAlive
  /\ reporterPc = "select"
  /\ ctxDone
  /\ reporterPc' = "returned"
  /\ UNCHANGED <<logPc, logRead, logLine, logOutput, ctxDone, logged, logAlive>>
  /\ UNCHANGED nonLogVars

LogNext ==
  \/ \E l \in Listeners : ListenScan(l)
  \/ \E l \in Listeners : ListenEnd(l)
  \/ \E l \in Listeners : Receive(l)
  \/ Cancel
  \/ ReporterReturn

\* ------------------------------------------------------------------------
\* Two create-transformation commands at the same time
\* ------------------------------------------------------------------------
Commands == {1, 2}

\* command p is `create transformation --name Tr<p> --target T1 [--source S1]`
CommandName(p) == IF p = 1 THEN "Tr1" ELSE "Tr2"
CommandTarget == "T1"
CommandSourceInputs == {<<>>, <<"S1">>}

NoProc ==
  [pc |-> "idle", name |-> "", sources |-> <<>>, targetTriggers |-> {}, i |-> 0,
   todo |-> {}]

ConcInit ==
  /\ procs = [p \in Commands |-> NoProc]
  /\ writers = <<>>

\* the variables of the single create command that the two commands do not use
nonConcVars == <<runVars, adapterVars, logVars, pc, op, result, opsDone, clean, pre,
                lastCompare>>

\* command p writes the broker config
Writes(p) ==
  writers' = IF writers # <<>> /\ writers[Len(writers)] = p
             THEN writers
             ELSE Append(writers, p)

\* the command goes to position at, with the locals changed as given
Goes(p, proc) == procs' = [procs EXCEPT ![p] = proc]

\* lines 98-155: the transformation is in the manifest and its container runs
CBegin(p, sources) ==
  /\ procs[p].pc = "idle"
  /\ manifestObjects' = manifestObjects \cup {CommandName(p)}
  /\ containers' = containers \cup {CommandName(p)}
  /\ Goes(p, [NoProc EXCEPT !.pc = "getTargets", !.name = CommandName(p),
                            !.sources = sources])
  /\ UNCHANGED <<brokerConfig, manifestTriggers, writers>>
  /\ UNCHANGED nonConcVars

\* targetTriggers, err = tmbroker.GetTargetTriggers(o.Context, o.ConfigBase, target)
CGetTargetTriggers(p) ==
  /\ procs[p].pc = "getTargets"
  /\ \E ok \in BOOLEAN :
       IF ok
       THEN Goes(p, [procs[p] EXCEPT
                       !.pc = "createTarget",
                       !.targetTriggers = GetTargetTriggers(brokerConfig, CommandTarget)])
       ELSE Goes(p, [procs[p] EXCEPT !.pc = "failed"])
  /\ UNCHANGED <<manifestObjects, containers, brokerConfig, manifestTriggers, writers>>
  /\ UNCHANGED nonConcVars

\* o.createTrigger("", targetPort, target, FilterExactAttribute("type", ...))
CCreateTargetTrigger(p) ==
  /\ procs[p].pc = "createTarget"
  /\ \E ok \in BOOLEAN :
       IF ok
       THEN LET trigger == CreateTrigger(brokerConfig, manifestTriggers, CommandTarget,
                             PortOf(CommandTarget),
                             FilterExactAttribute("type", OutputType(procs[p].name)))
            IN /\ brokerConfig' = Upsert(brokerConfig, trigger)
               /\ manifestTriggers' = Upsert(manifestTriggers, trigger)
               /\ Writes(p)
               /\ Goes(p, [procs[p] EXCEPT !.pc = "sources", !.i = 1])
       ELSE /\ Goes(p, [procs[p] EXCEPT !.pc = "failed"])
            /\ UNCHANGED <<brokerConfig, manifestTriggers, writers>>
  /\ UNCHANGED <<manifestObjects, containers>>
  /\ UNCHANGED nonConcVars

\* one iteration of `for _, es := range eventSourcesFilter`: createTrigger, then
\* the loop over targetTriggers, which removes the triggers it does not skip
CFilterTrigger(p) ==
  /\ procs[p].pc = "sources"
  /\ procs[p].i <= Len(procs[p].sources)
  /\ \E ok \in BOOLEAN :
       IF ok
       THEN LET filter == FilterVar("source", procs[p].i, procs[p].sources[procs[p].i])
                trigger == CreateTrigger(brokerConfig, manifestTriggers, procs[p].name,
                             PortOf(procs[p].name), filter.val)
                removed == {t.name : t \in {u \in procs[p].targetTriggers :
                                             ~SkipsTrigger(u, filter)}}
            IN /\ brokerConfig' =
                    {t \in Upsert(brokerConfig, trigger) : t.name \notin removed}
               /\ manifestTriggers' =
                    {t \in Upsert(manifestTriggers, trigger) : t.name \notin removed}
               /\ Writes(p)
               /\ Goes(p, [procs[p] EXCEPT !.i = procs[p].i + 1])
       ELSE /\ Goes(p, [procs[p] EXCEPT !.pc = "failed"])
            /\ UNCHANGED <<brokerConfig, manifestTriggers, writers>>
  /\ UNCHANGED <<manifestObjects, containers>>
  /\ UNCHANGED nonConcVars

\* the range loop has no value left; line 207
CLoopEnd(p) ==
  /\ procs[p].pc = "sources"
  /\ procs[p].i > Len(procs[p].sources)
  /\ Goes(p, [procs[p] EXCEPT
                !.pc = "retarget",
                !.todo = IF Len(procs[p].sources) = 0
                         THEN Names(procs[p].targetTriggers) ELSE {}])
  /\ UNCHANGED <<manifestObjects, containers, brokerConfig, manifestTriggers, writers>>
  /\ UNCHANGED nonConcVars

\* one iteration of the loop of lines 208-216
CRetarget(p) ==
  /\ procs[p].pc = "retarget"
  /\ procs[p].todo # {}
  /\ \E ok \in BOOLEAN :
       IF ok
       THEN LET n == NextOf(procs[p].todo)
                trigger == SetTarget(TriggerNamed(procs[p].targetTriggers, n),
                                     procs[p].name, Endpoint(PortOf(procs[p].name)))
            IN /\ brokerConfig' = Upsert(brokerConfig, trigger)
               /\ manifestTriggers' = Upsert(manifestTriggers, trigger)
               /\ Writes(p)
               /\ Goes(p, [procs[p] EXCEPT !.todo = procs[p].todo \ {n}])
       ELSE /\ Goes(p, [procs[p] EXCEPT !.pc = "failed"])
            /\ UNCHANGED <<brokerConfig, manifestTriggers, writers>>
  /\ UNCHANGED <<manifestObjects, containers>>
  /\ UNCHANGED nonConcVars

\* return nil
CReturn(p) ==
  /\ procs[p].pc = "retarget"
  /\ procs[p].todo = {}
  /\ Goes(p, [procs[p] EXCEPT !.pc = "done"])
  /\ UNCHANGED <<manifestObjects, containers, brokerConfig, manifestTriggers, writers>>
  /\ UNCHANGED nonConcVars

ConcNext ==
  \E p \in Commands :
    \/ \E sources \in CommandSourceInputs : CBegin(p, sources)
    \/ CGetTargetTriggers(p)
    \/ CCreateTargetTrigger(p)
    \/ CFilterTrigger(p)
    \/ CLoopEnd(p)
    \/ CRetarget(p)
    \/ CReturn(p)

\* ------------------------------------------------------------------------
\* Specifications
\* ------------------------------------------------------------------------
RunIdle == RunInit /\ objects = 0

\* no runtime call on a single adapter is made, nothing is logged and no two
\* create commands run at the same time
RestIdle == AdapterInit /\ LogInit /\ ConcInit

Init == CreateInit /\ RunIdle /\ RestIdle

\* RunAll is called while no create command runs
RunAllInit == RunInit /\ CreateInit /\ RestIdle

AdapterSpecInit == AdapterInit /\ CreateInit /\ RunIdle /\ LogInit /\ ConcInit

LogSpecInit == LogInit /\ CreateInit /\ RunIdle /\ AdapterInit /\ ConcInit

ConcSpecInit == ConcInit /\ CreateInit /\ RunIdle /\ AdapterInit /\ LogInit

Next ==
  \/ \E name \in NameInputs, target \in TargetInputs, sources \in SourceInputs,
        eventTypes \in EventTypeInputs, declared \in DeclaredTypeInputs :
       Begin(name, target, sources, eventTypes, declared)
  \/ LookupTarget
  \/ TranslateEventSource
  \/ ReadSpec
  \/ SetEventType
  \/ ManifestAdd
  \/ StartContainer
  \/ TargetTrigger
  \/ FilterTrigger("type")
  \/ FilterLoopEnd("type")
  \/ FilterScan("type")
  \/ FilterTrigger("source")
  \/ FilterLoopEnd("source")
  \/ FilterScan("source")
  \/ Retarget
  \/ Return

\* the create-transformation command, run up to MaxOps times
Spec == Init /\ [][Next]_vars

\* one call of LocalSetup.RunAll
RunSpec == RunAllInit /\ [][RunNext]_vars

\* up to MaxCalls runtime calls on the adapters of a two-object manifest
AdapterSpec == AdapterSpecInit /\ [][AdapterNext]_vars

\* one listener per component, each reading up to MaxLines lines, and the reporter
LogSpec == LogSpecInit /\ [][LogNext]_vars

\* two create-transformation commands, their steps interleaved
ConcSpec == ConcSpecInit /\ [][ConcNext]_vars

\* ------------------------------------------------------------------------
\* Properties of create transformation
\* ------------------------------------------------------------------------
\* the call has applied all its mutations and is at `return nil`
AtReturnNil == pc = "retarget" /\ op.todo = {}

HasFilters == Len(op.eventTypes) > 0 \/ Len(op.sources) > 0

\* the filters the call builds from --eventTypes and --source
NewFilters ==
  {FilterExactAttribute("type", op.eventTypes[k]) : k \in DOMAIN op.eventTypes}
    \cup {FilterExactAttribute("source", op.sources[k]) : k \in DOMAIN op.sources}

ContainerTarget == [name |-> op.container.name, url |-> Endpoint(op.container.port)]

\* the triggers that targeted the call's target when the call began
OldTargetTriggers == GetTargetTriggers(pre.config, op.target)

Superseded(p) == \E f \in NewFilters : Equivalent(p.filters, <<f>>)

\* C4: after a create with a target T and explicit filters, each filter value has
\* a dedicated single-filter trigger to the new container, every trigger that
\* targeted T with an equivalent filter set is gone from the broker config and
\* the manifest, and the other triggers that targeted T are intact.
C4_SupersededTriggersRemoved ==
  (AtReturnNil /\ op.target # "" /\ HasFilters) =>
    /\ \A f \in NewFilters :
         \E t \in brokerConfig : t.filters = <<f>> /\ t.target = ContainerTarget
    /\ \A p \in OldTargetTriggers :
         IF Superseded(p)
         THEN p.name \notin Names(brokerConfig) /\ p.name \notin Names(manifestTriggers)
         ELSE p \in brokerConfig

\* C5: the test that decides whether a trigger is superseded recognises a
\* single-filter trigger whose filter has the same key and value as the new filter.
C5_FiltersComparedByValue ==
  (lastCompare.done /\ Len(lastCompare.filters) = 1
     /\ lastCompare.filters[1] = lastCompare.filter) => lastCompare.same

NoDuplicateRoutes(store) ==
  \A t, u \in store :
    (t.target.name = u.target.name /\ Equivalent(t.filters, u.filters)) => t = u

\* C6: after any sequence of successful create-transformation calls the broker
\* config holds no two distinct triggers with equivalent filter sets and the same target.
C6_NoDuplicateRoutes ==
  (pc = "idle" /\ clean) => NoDuplicateRoutes(brokerConfig)

\* the step is the successful createTrigger call of line 163
TargetCreateStep == pc = "targetTrigger" /\ op.target # "" /\ pc' = "eventTypes"

\* the step is a successful createTrigger call of line 171 (type) or 190 (source)
FilterCreateStep(key) ==
  pc = LoopPc(key) /\ op.i <= Len(LoopValues(key)) /\ pc' # "idle"

\* over the step, the route gets a trigger if it had none and no trigger otherwise
RouteCreatedOnce(target, filter) ==
  LET before == RouteTriggers(brokerConfig, target, <<filter>>)
      after == RouteTriggers(brokerConfig', target, <<filter>>)
  IN IF before = {}
     THEN /\ Cardinality(after) = 1
          /\ Cardinality(brokerConfig') = Cardinality(brokerConfig) + 1
     ELSE /\ Names(after) = Names(before)
          /\ Names(brokerConfig') = Names(brokerConfig)

RetargetDone == AtReturnNil /\ op.target # "" /\ ~HasFilters

TargetRoute == <<FilterExactAttribute("type", op.eventType)>>

\* C8: after a successful create of Tr with target T and no filters (in a run in
\* which no call failed), every trigger that targeted T before targets Tr's
\* container under the same name and filters, no trigger other than Tr->T (filter
\* type = Tr's event type) was created, the Tr->T trigger targets T, and no
\* trigger was removed.
C8_RetargetKeepsTargetTrigger ==
  (RetargetDone /\ clean) =>
    /\ \A p \in OldTargetTriggers :
         \E t \in brokerConfig :
           t.name = p.name /\ t.filters = p.filters /\ t.target = ContainerTarget
    /\ \A t \in brokerConfig :
         t.name \notin Names(pre.config) =>
           t.filters = TargetRoute /\ t.target.name = op.target
    /\ Cardinality(Names(brokerConfig) \ Names(pre.config)) <= 1
    /\ \E t \in brokerConfig : t.filters = TargetRoute /\ t.target.name = op.target
    /\ Names(pre.config) \subseteq Names(brokerConfig)

\* C9: in the retarget scenario the number of triggers after the call equals
\* the number of triggers before it.
C9_TriggerCountUnchanged ==
  RetargetDone =>
    /\ Cardinality(brokerConfig) = Cardinality(pre.config)
    /\ Cardinality(manifestTriggers) = Cardinality(pre.manifest)

\* the Tr->T trigger the call had to make: 1 unless the route already existed
NewTargetTriggers ==
  IF RouteTriggers(pre.config, op.target, TargetRoute) = {} THEN 1 ELSE 0

\* C9 (amended): in the retarget scenario the number of triggers after the call
\* is the number before it plus one for the new Tr->T trigger, and equal to the
\* number before it when a trigger with that filter already targeted T.
C9_TriggerCountPlusTargetTrigger ==
  RetargetDone =>
    /\ Cardinality(brokerConfig) = Cardinality(pre.config) + NewTargetTriggers
    /\ Cardinality(manifestTriggers) = Cardinality(pre.manifest) + NewTargetTriggers

C9_Witness ==
  /\ RetargetDone
  /\ OldTargetTriggers # {}
  /\ \A p \in OldTargetTriggers :
       \E t \in brokerConfig : t.name = p.name /\ t.target = ContainerTarget
  /\ Cardinality(brokerConfig) = Cardinality(pre.config) + 1

\* C10: whenever a create-transformation call has returned, with success or
\* with an error, the triggers of the manifest and of the broker config agree.
C10_ManifestMirrorsBrokerConfig ==
  pc = "idle" => manifestTriggers = brokerConfig

\* the createTrigger call of a filter loop fails
FilterCreateFails(key) ==
  pc = LoopPc(key) /\ op.i <= Len(LoopValues(key)) /\ pc' = "idle"

\* the filters the loops have gone through before the value at op.i of loop key
FiltersBefore(key) ==
  {FilterExactAttribute(key, LoopValues(key)[j]) : j \in 1..(op.i - 1)}
    \cup (IF key = "source"
          THEN {FilterExactAttribute("type", op.eventTypes[j]) : j \in 1..Len(op.eventTypes)}
          ELSE {})

\* the filters of the value at op.i of loop key and of the values after it
FiltersFrom(key) ==
  {FilterExactAttribute(key, LoopValues(key)[j]) : j \in op.i..Len(LoopValues(key))}
    \cup (IF key = "type"
          THEN {FilterExactAttribute("source", op.sources[j]) : j \in 1..Len(op.sources)}
          ELSE {})

\* C15: when creating the trigger of the k-th filter value fails, the command
\* returns the error at once: the broker config and the manifest are left as
\* they were before the failing call, the triggers of the values before k
\* still route to the transformation, and no trigger is made for the k-th
\* value or a later one.
C15_FailFastNoRollback ==
  [][\A key \in {"type", "source"} :
       FilterCreateFails(key) =>
         /\ result' = "err"
         /\ opsDone' = opsDone + 1
         /\ brokerConfig' = brokerConfig
         /\ manifestTriggers' = manifestTriggers
         /\ \A f \in FiltersBefore(key) :
              /\ RouteTriggers(brokerConfig', op.container.name, <<f>>) # {}
              /\ RouteTriggers(manifestTriggers', op.container.name, <<f>>) # {}
         /\ \A f \in FiltersFrom(key) \ FiltersBefore(key) :
              RouteTriggers(brokerConfig', op.container.name, <<f>>)
                \subseteq pre.config
    ]_vars

\* the first command was given the sources S1 and S2 and failed at S2: the
\* trigger of S1 is there, none of S2
C15_Witness ==
  /\ opsDone = 1
  /\ result = "err"
  /\ RouteTriggers(brokerConfig, "Tr1", <<FilterExactAttribute("source", "S1")>>) # {}
  /\ RouteTriggers(brokerConfig, "Tr1", <<FilterExactAttribute("source", "S2")>>) = {}

\* the call is past lines 135-144
EventTypeChosen ==
  pc \notin {"idle", "lookupTarget", "translate", "readSpec", "eventType"}

\* createTrigger of line 163 has just returned
TargetTriggerCreated == pc = "eventTypes" /\ op.i = 1 /\ op.target # ""

\* C19: a call that returns an error from the target lookup, the source
\* translation, the spec read or the container start leaves the manifest and
\* the broker config as they were when the call began.
C19_EarlyFailureLeavesNothing ==
  [][(pc \in {"lookupTarget", "translate", "readSpec", "start"} /\ pc' = "idle") =>
       /\ manifestObjects' = pre.objects
       /\ manifestTriggers' = pre.manifest
       /\ brokerConfig' = pre.config
    ]_vars

\* C20: a transformation that declares no event type gets "<name>.output": it
\* is set as its type attribute before Manifest.Add and is the filter of the
\* trigger to the target. One that declares event types keeps its attributes
\* and the trigger to the target filters on the first declared type.
C20_OutputEventType ==
  /\ EventTypeChosen =>
       IF Len(op.declared) = 0
       THEN op.eventType = op.name \o ".output" /\ op.typeAttr = op.name \o ".output"
       ELSE op.eventType = op.declared[1] /\ op.typeAttr = ""
  /\ TargetTriggerCreated =>
       LET type == IF Len(op.declared) = 0
                   THEN op.name \o ".output"
                   ELSE op.declared[1]
       IN  /\ RouteTriggers(brokerConfig, op.target,
                            <<FilterExactAttribute("type", type)>>) # {}
           /\ \A t \in brokerConfig \ pre.config :
                t.filters = <<FilterExactAttribute("type", type)>>

C20_Witness ==
  /\ TargetTriggerCreated
  /\ op.target = "T1"
  /\ Len(op.declared) = 0
  /\ op.typeAttr = "Tr1.output"
  /\ \E t \in brokerConfig \ pre.config :
       t.filters = <<FilterExactAttribute("type", "Tr1.output")>> /\ t.target.name = "T1"

\* ------------------------------------------------------------------------
\* Properties of the runtime calls
\* ------------------------------------------------------------------------
\* the container the running Start call created
Started == CHOOSE c \in adapters : c.id = call.id

StartedNew == call.pc = "return" /\ ~call.reused

\* C11: the readiness probe is bounded. A started adapter that answers from
\* attempt k on, 1 <= k <= 10, is returned ready after exactly k attempts; one
\* that does not answer within 10 attempts is returned as an unready error
\* after exactly 10 attempts and is never ready. No Start probes more than 10
\* times.
C11_ReadinessBounded ==
  /\ call.pc = "probe" => call.attempts <= 10 /\ Started.state = "starting"
  /\ StartedNew =>
       IF call.reachAt <= 10
       THEN call.err = "nil" /\ call.attempts = call.reachAt /\ Started.state = "ready"
       ELSE call.err = "unready" /\ call.attempts = 10 /\ Started.state = "unready"

C11_Witness ==
  StartedNew /\ call.reachAt = 10 /\ call.attempts = 10 /\ Started.state = "ready"

\* the step is made by a call that explicitly stops containers
StopStep == ret'.kind = "stop" \/ call.pc = "stopAll"

\* the step is the first step of a Start call on name n that replaces n's container
ReplacingStartStep(n) == call.pc = "idle" /\ call'.pc = "probe" /\ call'.name = n

\* the step is a probe attempt of the Start call that created container c
ProbeStepOf(c) == call.pc = "probe" /\ call.id = c.id

StatusStep == ret'.kind = "status" /\ callsDone' = callsDone + 1

\* C12: every container follows absent -> starting -> {ready | unready} ->
\* stopped. A container appears only as starting, by a Start call; it becomes
\* ready only from starting, by a probe attempt of the Start that created it
\* and that the adapter answers; once unready it is never ready; it is
\* stopped only by an explicit stop or by a Start call that replaces it; a
\* Status call changes nothing.
C12_Lifecycle ==
  [][/\ \A c \in adapters' \ adapters :
          \/ /\ c.state = "starting"
             /\ ReplacingStartStep(c.name)
             /\ \A d \in adapters : d.id # c.id
          \/ \E d \in adapters :
               /\ d.id = c.id /\ d.name = c.name
               /\ d.state = "starting"
               /\ ProbeStepOf(d)
               /\ c.state \in {"ready", "unready"}
               /\ c.state = "ready" => call'.attempts >= call.reachAt
     /\ \A d \in adapters :
          (\A c \in adapters' : c.id # d.id) =>
             /\ d.state \in {"ready", "unready"}
             /\ StopStep \/ ReplacingStartStep(d.name)
     /\ StatusStep => adapters' = adapters
    ]_vars

\* a container was started, probed and then stopped
C12_Witness ==
  /\ ret.kind = "stop" /\ ret.err = "nil" /\ ret.name = "a1"
  /\ callsDone = 2
  /\ nextId = 2
  /\ adapters = {}

\* the step enters Start
StartStep == call.pc = "idle" /\ call'.pc \in {"probe", "return"}

\* C13: Start with restart unset on a component whose container is running
\* keeps that container: nothing is stopped, nothing is created and the
\* running container is the one returned. Otherwise the name has exactly one
\* container afterwards, the newly created one. The create command passes
\* Start the restart flag that Manifest.Add returned.
C13_RestartSemantics ==
  [][StartStep =>
       LET n == call'.name
           old == ContainersOf(adapters, n)
       IN  /\ IF ~call'.restart /\ \E c \in old : c.state = "ready"
              THEN /\ adapters' = adapters
                   /\ nextId' = nextId
                   /\ call'.reused
                   /\ \E c \in old : c.state = "ready" /\ c.id = call'.id
              ELSE /\ ~call'.reused
                   /\ \A c \in adapters : c.id # call'.id
                   /\ Cardinality(ContainersOf(adapters', n)) = 1
                   /\ \A c \in ContainersOf(adapters', n) : c.id = call'.id
           /\ call'.caller = "create" => call'.restart = call'.added
    ]_vars

\* the create command started a component whose record had not changed and
\* whose container was running
C13_Witness ==
  call.pc = "return" /\ call.reused /\ call.caller = "create" /\ ~call.added

\* the only error a stop returns is that of docker.NewClient
StopErrors == {"nil", "docker client"}

\* C14: stopping is idempotent. Stopping a name that has no container returns
\* no error of its own and changes nothing, so a second stop leaves what the
\* first one left. After a stop that returned nil the name has no container.
\* StopAll over a manifest some of whose objects have no container stops the
\* containers of all the others and returns nil, unless the docker client
\* cannot be created.
C14_StopIdempotent ==
  [][/\ ret'.kind = "stop" /\ callsDone' = callsDone + 1 =>
          /\ ret'.err \in StopErrors
          /\ ContainersOf(adapters, ret'.name) = {} => adapters' = adapters
          /\ ret'.err = "nil" =>
               /\ ContainersOf(adapters', ret'.name) = {}
               /\ RemoveContainer(adapters', ret'.name) = adapters'
               /\ \A c \in adapters : c.name # ret'.name => c \in adapters'
     /\ ret'.kind = "stopAll" /\ callsDone' = callsDone + 1 =>
          /\ ret'.err \in StopErrors \cup {"manifest"}
          /\ ret'.err = "nil" => adapters' = {}
    ]_vars

\* StopAll returned nil where one object had a container and the other none
C14_Witness ==
  /\ ret.kind = "stopAll" /\ ret.err = "nil"
  /\ callsDone = 2
  /\ nextId = 2
  /\ adapters = {}

\* ------------------------------------------------------------------------
\* Properties of the log listeners
\* ------------------------------------------------------------------------
\* listener l reads a line in this step
ScanStep(l) == logRead'[l] = logRead[l] + 1

\* the line is the 8-byte header followed by a structured record
ParsesAsRecord(line) == line.size >= 8 /\ line.json

\* C17: a line read from a container is put on the error channel exactly when
\* it parses as a structured record whose severity is neither "INFO" nor
\* "WARNING"; a line that does not parse is skipped and the listener goes on
\* reading; an entry put on the channel carries the name of its component.
C17_LogClassification ==
  [][\A l \in Listeners :
       ScanStep(l) =>
         /\ logPc'[l] = "send" <=>
               (ParsesAsRecord(logLine'[l])
                  /\ logLine'[l].severity \notin {"INFO", "WARNING"})
         /\ ~ParsesAsRecord(logLine'[l]) => logPc'[l] = "scan" /\ logAlive'
         /\ logPc'[l] = "send" => logOutput'[l].component = l
    ]_vars

\* C18: once printLogErrors has returned, no listener is blocked in the send
\* on the error channel, which nobody receives from any more.
C18_NoListenerBlockedOnSend ==
  (logAlive /\ reporterPc = "returned") => \A l \in Listeners : logPc[l] # "send"

\* ------------------------------------------------------------------------
\* Properties of two commands at the same time
\* ------------------------------------------------------------------------
\* the broker config both commands start from
FirstConfig == {InitTrigger(1, "S1"), InitTrigger(2, "S2")}

\* the broker config a successful command leaves when it runs alone on config
Reconcile(config, name, sources) ==
  LET found == GetTargetTriggers(config, CommandTarget)
      toTarget == CreateTrigger(config, config, CommandTarget, PortOf(CommandTarget),
                                FilterExactAttribute("type", OutputType(name)))
      c1 == Upsert(config, toTarget)
      c2 == IF Len(sources) = 0
            THEN c1
            ELSE Upsert(c1, CreateTrigger(c1, c1, name, PortOf(name),
                                          FilterExactAttribute("source", sources[1])))
  IN  IF Len(sources) = 0
      THEN {IF t.name \in Names(found)
            THEN SetTarget(TriggerNamed(found, t.name), name, Endpoint(PortOf(name)))
            ELSE t : t \in c2}
      ELSE c2

\* what a config routes: its triggers without their names
Routes(config) == {[filters |-> t.filters, target |-> t.target] : t \in config}

SerialResults ==
  {Reconcile(Reconcile(FirstConfig, CommandName(1), procs[1].sources),
             CommandName(2), procs[2].sources),
   Reconcile(Reconcile(FirstConfig, CommandName(2), procs[2].sources),
             CommandName(1), procs[1].sources)}

\* C16: the writes of two commands running at the same time do not
\* interleave, and when both have returned nil the broker config is the one
\* that running them one after the other, in one of the two orders, leaves
\* (up to the names of the triggers).
C16_SerializableWrites ==
  /\ Len(writers) <= 2
  /\ (\A p \in Commands : procs[p].pc = "done") =>
       \E config \in SerialResults : Routes(brokerConfig) = Routes(config)
====
